---------------------------- MODULE Spec2Model ----------------------------
(***************************************************************************)
(* A model of the logos language service: the Document buffer of           *)
(* logos-core, the inverted prefix index of logos-index, the daemon's      *)
(* State container with its document-synchronisation handlers, the         *)
(* lifecycle and request handlers of the daemon, and the read loop of      *)
(* main over the framed bytes of stdin.                                    *)
(*                                                                         *)
(* Text is a sequence of Unicode scalar values (code points).  A Rust      *)
(* String is valid UTF-8, so a byte offset is the sum of the UTF-8 widths  *)
(* of the scalar values before it; slicing at a byte offset that is not a  *)
(* scalar-value boundary panics.                                           *)
(***************************************************************************)
EXTENDS Integers, Sequences, FiniteSets, TLC

VARIABLES
    doc,            \* logos-core Document under test: content, version, line_offsets
    docOp,          \* the Document operation executed last, with its input and result
    documents,      \* State.documents: URI -> Document
    symbol_index,   \* State.symbol_index: per-URI symbol names and the inverted index
    todo_index,     \* State.todo_index: URI -> TODO items
    lastMsg,        \* the notification or index call handled last
    initialized,    \* State.initialized
    root_path,      \* State.root_path
    server,         \* the Server's lifecycle flags and the response it returned last
    io,             \* the daemon process: unread stdin, bodies handled, stdout, exit status
    tracker,        \* IncrementalIndexer.tracker: the modified and the deleted URIs
    analysis        \* a syntax tree, the symbols and scope tree made of it, the last query

vars == <<doc, docOp, documents, symbol_index, todo_index, lastMsg,
          initialized, root_path, server, io, tracker, analysis>>

---------------------------------------------------------------------------
(* Bounds of the model *)

MaxLen == 3         \* longest Document content, in scalar values
MaxTextLen == 1     \* longest replacement text of apply_change
MaxLine == 1        \* largest line number of an input position
MaxCol == 3         \* largest column of an input position
MaxVersion == 1     \* Document versions are explored up to this value

---------------------------------------------------------------------------
(* Characters *)

NL == 10            \* '\n'

\* 'a', '\n', U+10437 (4 bytes in UTF-8, 2 code units in UTF-16)
DocAlphabet == {97, NL, 66615}

\* 'a', '\n'
TextAlphabet == {97, NL}

\* char::len_utf8
len_utf8(ch) ==
    IF ch < 128 THEN 1
    ELSE IF ch < 2048 THEN 2
    ELSE IF ch < 65536 THEN 3
    ELSE 4

\* char::len_utf16
len_utf16(ch) == IF ch < 65536 THEN 1 ELSE 2

\* str::len: the length in bytes
RECURSIVE ByteLen(_)
ByteLen(s) == IF s = <<>> THEN 0 ELSE len_utf8(Head(s)) + ByteLen(Tail(s))

\* the length in UTF-16 code units: the sum of len_utf16 over the chars
RECURSIVE Utf16Len(_)
Utf16Len(s) == IF s = <<>> THEN 0 ELSE len_utf16(Head(s)) + Utf16Len(Tail(s))

\* the byte index of the k-th scalar value (1-based), as char_indices yields it
ByteIndex(s, k) == ByteLen(SubSeq(s, 1, k - 1))

\* str::is_char_boundary
IsCharBoundary(s, off) == \E k \in 1..(Len(s) + 1) : ByteIndex(s, k) = off

\* &s[from..to] for boundary offsets from <= to <= len
Slice(s, from, to) ==
    LET first == CHOOSE k \in 1..(Len(s) + 1) : ByteIndex(s, k) = from
        last  == CHOOSE k \in 1..(Len(s) + 1) : ByteIndex(s, k) = to
    IN  SubSeq(s, first, last - 1)

\* Option<usize>
None == [some |-> FALSE, val |-> 0]
Some(x) == [some |-> TRUE, val |-> x]

Position(l, c) == [line |-> l, column |-> c]
Range(s, e) == [start |-> s, end |-> e]

\* Position's derived ordering: lexicographic on (line, column)
PosLe(p, q) == p.line < q.line \/ (p.line = q.line /\ p.column <= q.column)

---------------------------------------------------------------------------
(* logos-core: Document *)

RECURSIVE LineOffsetsFrom(_, _)
LineOffsetsFrom(content, k) ==
    IF k > Len(content) THEN <<>>
    ELSE IF content[k] = NL
         THEN <<ByteIndex(content, k) + 1>> \o LineOffsetsFrom(content, k + 1)
         ELSE LineOffsetsFrom(content, k + 1)

\* compute_line_offsets pushing i, the index of the newline itself
compute_line_offsets_at_newline(content) ==
    <<0>> \o [i \in 1..Len(LineOffsetsFrom(content, 1)) |->
                 LineOffsetsFrom(content, 1)[i] - 1]

compute_line_offsets(content) == <<0>> \o LineOffsetsFrom(content, 1)

Document_new(content) ==
    [content |-> content, version |-> 0, line_offsets |-> compute_line_offsets(content)]

line_count(d) == Len(d.line_offsets)

\* the loop of offset_at: stops at the first scalar value at which col >= column
RECURSIVE ColumnWalk(_, _, _, _)
ColumnWalk(chars, column, col, byte_offset) ==
    IF chars = <<>> \/ col >= column THEN byte_offset
    ELSE ColumnWalk(Tail(chars), column,
                    col + len_utf16(Head(chars)), byte_offset + len_utf8(Head(chars)))

offset_at(d, position) ==
    IF position.line >= Len(d.line_offsets) THEN None
    ELSE LET line_idx   == position.line + 1
             line_start == d.line_offsets[line_idx]
             line_end   == IF line_idx + 1 <= Len(d.line_offsets)
                           THEN d.line_offsets[line_idx + 1]
                           ELSE ByteLen(d.content)
             line_content == Slice(d.content, line_start, line_end)
         IN  Some(line_start + ColumnWalk(line_content, position.column, 0, 0))

Min(a, b) == IF a <= b THEN a ELSE b

\* slice::binary_search on the strictly increasing line_offsets, then
\* Ok(line) => line, Err(line) => line.saturating_sub(1); zero-based result
SearchLine(line_offsets, offset) ==
    IF \E i \in 1..Len(line_offsets) : line_offsets[i] = offset
    THEN (CHOOSE i \in 1..Len(line_offsets) : line_offsets[i] = offset) - 1
    ELSE LET ins == Cardinality({i \in 1..Len(line_offsets) : line_offsets[i] < offset})
         IN  IF ins = 0 THEN 0 ELSE ins - 1

PanicPosition == [line |-> -1, column |-> -1]

position_at_bytes(d, offset0) ==
    LET offset == Min(offset0, ByteLen(d.content))
        line == SearchLine(d.line_offsets, offset)
    IN  Position(line, offset - d.line_offsets[line + 1])

position_at(d, offset0) ==
    LET offset == Min(offset0, ByteLen(d.content))
        line == SearchLine(d.line_offsets, offset)
        line_start == d.line_offsets[line + 1]
    IN  IF ~IsCharBoundary(d.content, offset) THEN PanicPosition
        ELSE Position(line, Utf16Len(Slice(d.content, line_start, offset)))

\* set_content that leaves a document alone when the content is the same
set_content_if_changed(d, content) ==
    IF content = d.content THEN d
    ELSE [content |-> content, version |-> d.version + 1,
          line_offsets |-> compute_line_offsets(content)]

set_content(d, content) ==
    [content |-> content, version |-> d.version + 1,
     line_offsets |-> compute_line_offsets(content)]


\* the byte at index b is b'\n' (a newline is one byte, and no byte of a
\* multi-byte scalar value equals it)
ByteIsNL(content, b) ==
    \E k \in 1..Len(content) : ByteIndex(content, k) = b /\ content[k] = NL

\* Document::line: the line's text without its trailing newline
line(d, line_number) ==
    IF line_number >= Len(d.line_offsets) THEN None
    ELSE LET line_idx == line_number + 1
             start == d.line_offsets[line_idx]
             end == IF line_idx + 1 <= Len(d.line_offsets)
                    THEN LET next_start == d.line_offsets[line_idx + 1]
                         IN  IF next_start > 0 /\ ByteIsNL(d.content, next_start - 1)
                             THEN next_start - 1
                             ELSE next_start
                    ELSE ByteLen(d.content)
         IN  Some(Slice(d.content, start, end))

\* the two offsets apply_change resolves: unwrap_or(0), unwrap_or(len)
start_offset(d, range) ==
    LET o == offset_at(d, range.start) IN IF o.some THEN o.val ELSE 0

end_offset(d, range) ==
    LET o == offset_at(d, range.end) IN IF o.some THEN o.val ELSE ByteLen(d.content)

\* `end_offset - start_offset` underflows: a panic where overflow checks are
\* compiled in, a wrapped capacity hint otherwise
apply_change_underflows(d, range) == end_offset(d, range) < start_offset(d, range)

apply_change_keeps_tail(d, range, text) ==
    LET new_content == Slice(d.content, 0, start_offset(d, range)) \o text
                       \o Slice(d.content, start_offset(d, range), ByteLen(d.content))
    IN  [content |-> new_content, version |-> d.version + 1,
         line_offsets |-> compute_line_offsets(new_content)]

apply_change(d, range, text) ==
    LET new_content == Slice(d.content, 0, start_offset(d, range)) \o text
                       \o Slice(d.content, end_offset(d, range), ByteLen(d.content))
    IN  [content |-> new_content, version |-> d.version + 1,
         line_offsets |-> compute_line_offsets(new_content)]

\* Document::text_in_range; slicing with start > end panics
text_in_range(d, range) ==
    LET s == offset_at(d, range.start)
        e == offset_at(d, range.end)
    IN  IF ~s.some \/ ~e.some THEN [some |-> FALSE, panic |-> FALSE, text |-> <<>>]
        ELSE IF s.val > e.val THEN [some |-> FALSE, panic |-> TRUE, text |-> <<>>]
        ELSE [some |-> TRUE, panic |-> FALSE, text |-> Slice(d.content, s.val, e.val)]

---------------------------------------------------------------------------
(* logos-index: InvertedIndex, a map from key to the set of URIs under it *)

\* char::to_lowercase, on the characters of the model
char_to_lowercase(ch) == IF 65 <= ch /\ ch <= 90 THEN ch + 32 ELSE ch

to_lowercase(s) == [k \in 1..Len(s) |-> char_to_lowercase(s[k])]

\* the byte lengths i of `for i in 2..=name_lower.len()`
PrefixLengths(name_lower) == 2..ByteLen(name_lower)

\* &name_lower[..i] panics when i is not a scalar-value boundary
PrefixPanics(name_lower) ==
    \E i \in PrefixLengths(name_lower) : ~IsCharBoundary(name_lower, i)

\* the keys `add` inserts under: the whole lowercased name, and every prefix
\* of 2 bytes or more
AddKeys(name_lower) ==
    {name_lower} \cup {Slice(name_lower, 0, i) : i \in PrefixLengths(name_lower)}

\* the keys `remove` visits: every prefix of 2 bytes or more
RemoveKeys(name_lower) ==
    {Slice(name_lower, 0, i) : i \in PrefixLengths(name_lower)}

\* entry(key).or_default().insert(uri) for every key of keys
InsertUnder(index, keys, uri) ==
    [key \in DOMAIN index \cup keys |->
        IF key \in keys
        THEN (IF key \in DOMAIN index THEN index[key] ELSE {}) \cup {uri}
        ELSE index[key]]

\* uris.remove(uri), and the key dropped when its set becomes empty, for every
\* key of keys that is present
RemoveUnder(index, keys, uri) ==
    LET kept == {key \in DOMAIN index : key \notin keys \/ index[key] \ {uri} # {}}
    IN  [key \in kept |-> IF key \in keys THEN index[key] \ {uri} ELSE index[key]]

InvertedIndex_add(index, name, uri) ==
    InsertUnder(index, AddKeys(to_lowercase(name)), uri)

InvertedIndex_remove(index, name, uri) ==
    RemoveUnder(index, RemoveKeys(to_lowercase(name)), uri)

InvertedIndex_search(index, query) ==
    IF to_lowercase(query) \in DOMAIN index THEN index[to_lowercase(query)] ELSE {}

---------------------------------------------------------------------------
(* logos-index: SymbolIndex, the per-URI symbol lists over the InvertedIndex *)

\* an indexed symbol: its name, its URI and its place in the document's list
IndexedSymbols(uri, names) ==
    [k \in 1..Len(names) |-> [name |-> names[k], uri |-> uri, ord |-> k]]

RECURSIVE AddAll(_, _, _)
AddAll(index, symbols, uri) ==
    IF symbols = <<>> THEN index
    ELSE AddAll(InvertedIndex_add(index, Head(symbols).name, uri), Tail(symbols), uri)

RECURSIVE RemoveAll(_, _, _)
RemoveAll(index, symbols, uri) ==
    IF symbols = <<>> THEN index
    ELSE RemoveAll(InvertedIndex_remove(index, Head(symbols).name, uri), Tail(symbols), uri)

SymbolIndex_new == [symbols |-> <<>>, inverted |-> <<>>]

get_document_symbols(si, uri) ==
    IF uri \in DOMAIN si.symbols THEN si.symbols[uri] ELSE <<>>

\* some add or remove of the call slices a name inside a scalar value
IndexPanics(si, uri, names) ==
    \/ \E k \in 1..Len(names) : PrefixPanics(to_lowercase(names[k]))
    \/ \E k \in 1..Len(get_document_symbols(si, uri)) :
          PrefixPanics(to_lowercase(get_document_symbols(si, uri)[k].name))

SymbolIndex_index_document(si, uri, names) ==
    LET cleared == RemoveAll(si.inverted, get_document_symbols(si, uri), uri)
        symbols == IndexedSymbols(uri, names)
    IN  [symbols |-> [u \in DOMAIN si.symbols \cup {uri} |->
                         IF u = uri THEN symbols ELSE si.symbols[u]],
         inverted |-> AddAll(cleared, symbols, uri)]

SymbolIndex_remove_document(si, uri) ==
    [symbols |-> [u \in DOMAIN si.symbols \ {uri} |-> si.symbols[u]],
     inverted |-> RemoveAll(si.inverted, get_document_symbols(si, uri), uri)]

\* needle occurs in hay as a contiguous subsequence (str::contains)
Contains(hay, needle) ==
    \E k \in 0..(Len(hay) - Len(needle)) : SubSeq(hay, k + 1, k + Len(needle)) = needle

StartsWith(hay, needle) ==
    Len(needle) <= Len(hay) /\ SubSeq(hay, 1, Len(needle)) = needle

\* the symbols of the URIs selected by the inverted index whose lowercased
\* name contains the lowercased query; nothing for a query shorter than 2
SymbolIndex_search(si, query) ==
    IF Len(query) < 2 THEN {}
    ELSE {sym \in UNION {{get_document_symbols(si, u)[k] :
                             k \in 1..Len(get_document_symbols(si, u))} :
                          u \in InvertedIndex_search(si.inverted, query)} :
             Contains(to_lowercase(sym.name), to_lowercase(query))}

---------------------------------------------------------------------------
(* logos-index: TodoIndex, and the derivation of symbols and TODO items     *)

RECURSIVE SplitLines(_)
SplitLines(content) ==
    IF \A k \in 1..Len(content) : content[k] # NL THEN <<content>>
    ELSE LET k == CHOOSE i \in 1..Len(content) :
                     content[i] = NL /\ \A j \in 1..(i - 1) : content[j] # NL
         IN  <<SubSeq(content, 1, k - 1)>> \o SplitLines(SubSeq(content, k + 1, Len(content)))

\* "def "
DefKeyword == <<100, 101, 102, 32>>
\* '('
OpenParen == 40
\* '#'
Hash == 35
\* "TODO"
TodoTag == <<84, 79, 68, 79>>

\* the name of the function a line declares: the text between "def " and '('
DeclaredName(text) ==
    LET rest == SubSeq(text, Len(DefKeyword) + 1, Len(text))
        paren == CHOOSE i \in 1..Len(rest) :
                    rest[i] = OpenParen /\ \A j \in 1..(i - 1) : rest[j] # OpenParen
    IN  SubSeq(rest, 1, paren - 1)

DeclaresFunction(text) ==
    /\ StartsWith(text, DefKeyword)
    /\ \E i \in (Len(DefKeyword) + 1)..Len(text) : text[i] = OpenParen

\* the names of the symbols extracted from a document, in source order
RECURSIVE NamesOfLines(_)
NamesOfLines(lines) ==
    IF lines = <<>> THEN <<>>
    ELSE (IF DeclaresFunction(Head(lines)) THEN <<DeclaredName(Head(lines))>> ELSE <<>>)
         \o NamesOfLines(Tail(lines))

ExtractSymbols(content) == NamesOfLines(SplitLines(content))

\* the TODO items of a document: one per comment line carrying the tag
RECURSIVE TodosOfLines(_, _)
TodosOfLines(lines, n) ==
    IF lines = <<>> THEN <<>>
    ELSE (IF StartsWith(Head(lines), <<Hash>>) /\ Contains(Head(lines), TodoTag)
          THEN <<[kind |-> "Todo", line |-> n]>> ELSE <<>>)
         \o TodosOfLines(Tail(lines), n + 1)

ScanTodos(content) == TodosOfLines(SplitLines(content), 0)

TodoIndex_new == <<>>

TodoIndex_index_document(ti, uri, content) ==
    [u \in DOMAIN ti \cup {uri} |-> IF u = uri THEN ScanTodos(content) ELSE ti[u]]

TodoIndex_remove_document(ti, uri) == [u \in DOMAIN ti \ {uri} |-> ti[u]]

get_document_todos(ti, uri) == IF uri \in DOMAIN ti THEN ti[uri] ELSE <<>>

---------------------------------------------------------------------------
(* logos-daemon: State *)

State_new ==
    [documents |-> <<>>, symbol_index |-> SymbolIndex_new, todo_index |-> TodoIndex_new]

open_document(st, uri, content) ==
    [st EXCEPT !.documents = [u \in DOMAIN st.documents \cup {uri} |->
                                 IF u = uri THEN Document_new(content)
                                 ELSE st.documents[u]],
               !.todo_index = TodoIndex_index_document(st.todo_index, uri, content)]

update_document(st, uri, content) ==
    [st EXCEPT !.documents = [u \in DOMAIN st.documents |->
                                 IF u = uri THEN set_content(st.documents[u], content)
                                 ELSE st.documents[u]],
               !.todo_index = TodoIndex_index_document(st.todo_index, uri, content)]

close_document_keeps_todos(st, uri) ==
    [st EXCEPT !.documents = [u \in DOMAIN st.documents \ {uri} |-> st.documents[u]],
               !.symbol_index = SymbolIndex_remove_document(st.symbol_index, uri)]

close_document(st, uri) ==
    [st EXCEPT !.documents = [u \in DOMAIN st.documents \ {uri} |-> st.documents[u]],
               !.symbol_index = SymbolIndex_remove_document(st.symbol_index, uri),
               !.todo_index = TodoIndex_remove_document(st.todo_index, uri)]

---------------------------------------------------------------------------
(* Inputs of the Document specifications *)

RECURSIVE SeqsUpTo(_, _)
SeqsUpTo(S, n) ==
    IF n = 0 THEN {<<>>}
    ELSE LET shorter == SeqsUpTo(S, n - 1)
         IN  shorter \cup {Append(s, x) : s \in {t \in shorter : Len(t) = n - 1}, x \in S}

DocContents == SeqsUpTo(DocAlphabet, MaxLen)
Texts == SeqsUpTo(TextAlphabet, MaxTextLen)
Positions == {Position(l, c) : l \in 0..MaxLine, c \in 0..MaxCol}
Ranges == {Range(s, e) : s \in Positions, e \in Positions}
Offsets == 0..(4 * MaxLen + 1)

NoPosition == Position(0, 0)
NoOp == [name |-> "new", pos |-> NoPosition, off |-> 0, ordered |-> TRUE,
         res |-> None, at |-> NoPosition]

\* the three containers of the daemon's State, as one record
TheState ==
    [documents |-> documents, symbol_index |-> symbol_index, todo_index |-> todo_index]

\* no response: nothing is written to stdout for a notification
NoResponse == [code |-> 1, message |-> "", result |-> "none"]

\* Server::new: no shutdown requested, no exit requested, nothing answered yet
Server_new ==
    [shutdown_requested |-> FALSE, should_exit |-> FALSE, response |-> NoResponse]

\* a daemon process that has read nothing, written nothing and is running
\* (client: the messages the client wrote, in order, kept for reference)
NoIo == [stdin |-> <<>>, handled |-> <<>>, stdout |-> <<>>, status |-> None,
         client |-> <<>>]

\* ChangeTracker::new: nothing modified, nothing deleted
ChangeTracker_new == [modified |-> {}, deleted |-> {}]

\* ScopeTree::new: no scopes, no root
ScopeTree_new == [scopes |-> <<>>, root |-> None]

\* nothing parsed, nothing asked
NoAnalysis ==
    [op |-> "new", symbols |-> <<>>, tree |-> ScopeTree_new,
     position |-> Position(0, 0), name |-> <<>>, result |-> <<>>,
     source |-> <<>>, exports |-> <<>>]

NoMsg == [method |-> "new", uri |-> "none", open_before |-> FALSE, changes |-> 0]

\* the daemon's State as State::new leaves it
StateNew ==
    /\ documents = State_new.documents
    /\ symbol_index = State_new.symbol_index
    /\ todo_index = State_new.todo_index
    /\ lastMsg = NoMsg
    /\ initialized = FALSE
    /\ root_path = None
    /\ server = Server_new
    /\ io = NoIo
    /\ tracker = ChangeTracker_new
    /\ analysis = NoAnalysis

stateVars == <<documents, symbol_index, todo_index, lastMsg>>
serverVars == <<initialized, root_path, server, io>>
toolVars == <<tracker, analysis>>

---------------------------------------------------------------------------
(* DocSpec: one Document and its mutating operations *)

DocInit ==
    /\ doc \in {Document_new(c) : c \in DocContents}
    /\ docOp = NoOp
    /\ StateNew

DocRunning == docOp.name # "panic"

DocSetContent(content) ==
    /\ DocRunning
    /\ doc.version < MaxVersion
    /\ doc' = set_content(doc, content)
    /\ docOp' = [NoOp EXCEPT !.name = "set_content"]
    /\ UNCHANGED <<stateVars, serverVars, toolVars>>

DocApplyChange(range, text) ==
    /\ DocRunning
    /\ doc.version < MaxVersion
    /\ LET changed == apply_change(doc, range, text)
           underflows == apply_change_underflows(doc, range)
       IN  /\ Len(changed.content) <= MaxLen
           /\ \/ /\ ~underflows
                 /\ doc' = changed
                 /\ docOp' = [NoOp EXCEPT !.name = "apply_change",
                                          !.ordered = PosLe(range.start, range.end)]
              \/ /\ underflows
                 /\ doc' = changed
                 /\ docOp' = [NoOp EXCEPT !.name = "apply_change", !.ordered = FALSE]
              \/ /\ underflows
                 /\ doc' = doc
                 /\ docOp' = [NoOp EXCEPT !.name = "panic", !.ordered = FALSE]
    /\ UNCHANGED <<stateVars, serverVars, toolVars>>

DocNext ==
    \/ \E content \in DocContents : DocSetContent(content)
    \/ \E range \in Ranges, text \in Texts : DocApplyChange(range, text)

DocSpec == DocInit /\ [][DocNext]_vars

---------------------------------------------------------------------------
(* DocQuerySpec: the read-only operations of a Document, applied to every   *)
(* bounded content                                                          *)

DocOffsetAt(position) ==
    /\ docOp' = [NoOp EXCEPT !.name = "offset_at", !.pos = position,
                             !.res = offset_at(doc, position)]
    /\ UNCHANGED <<doc, stateVars, serverVars, toolVars>>

DocPositionAt(offset) ==
    /\ docOp' = [NoOp EXCEPT !.name = IF position_at(doc, offset) = PanicPosition
                                      THEN "panic" ELSE "position_at",
                             !.off = offset, !.at = position_at(doc, offset)]
    /\ UNCHANGED <<doc, stateVars, serverVars, toolVars>>

DocLine(line_number) ==
    /\ docOp' = [NoOp EXCEPT !.name = "line", !.pos = Position(line_number, 0),
                             !.res = [some |-> line(doc, line_number).some, val |-> 0]]
    /\ UNCHANGED <<doc, stateVars, serverVars, toolVars>>

DocTextInRange(range) ==
    /\ docOp' = [NoOp EXCEPT !.name = IF text_in_range(doc, range).panic
                                      THEN "panic" ELSE "text_in_range",
                             !.ordered = PosLe(range.start, range.end),
                             !.res = [some |-> text_in_range(doc, range).some, val |-> 0]]
    /\ UNCHANGED <<doc, stateVars, serverVars, toolVars>>

DocQueryNext ==
    \/ \E position \in Positions : DocOffsetAt(position)
    \/ \E offset \in Offsets : DocPositionAt(offset)
    \/ \E line_number \in 0..MaxLine : DocLine(line_number)
    \/ \E range \in Ranges : DocTextInRange(range)

DocQuerySpec == DocInit /\ [][DocQueryNext]_vars

---------------------------------------------------------------------------
(* Claims about Document positions (DocQuerySpec) *)

\* the text of line n without its newline (n is an existing line)
LineText(d, n) == line(d, n).val

\* p names an existing line, and its column is the UTF-16 length of a prefix
\* of that line's text: a position on a code-unit boundary between scalar values
ValidBoundary(d, p) ==
    /\ p.line < line_count(d)
    /\ \E k \in 0..Len(LineText(d, p.line)) :
          Utf16Len(SubSeq(LineText(d, p.line), 1, k)) = p.column

\* the column of p lies between the two code units of the k-th scalar value
\* of its line
InsidePair(d, p, k) ==
    /\ p.line < line_count(d)
    /\ k \in 1..Len(LineText(d, p.line))
    /\ len_utf16(LineText(d, p.line)[k]) = 2
    /\ Utf16Len(SubSeq(LineText(d, p.line), 1, k - 1)) = p.column - 1

\* "a", U+10437, "a": the scenario of the surrogate pair
PairContent == <<97, 66615, 97>>

\* C7: for every document and every valid position p on a code-unit boundary,
\* position_at(offset_at(p)) = p; after U+10437 the column is 3 and the
\* offset 5.
C7_RoundTrip ==
    /\ \A p \in Positions :
          ValidBoundary(doc, p) =>
             /\ offset_at(doc, p).some
             /\ position_at(doc, offset_at(doc, p).val) = p
    /\ doc.content = PairContent =>
          /\ offset_at(doc, Position(0, 3)) = Some(5)
          /\ position_at(doc, 5) = Position(0, 3)

C7_Witness ==
    /\ doc.content = PairContent
    /\ docOp.name = "offset_at"
    /\ docOp.pos = Position(0, 3)
    /\ ValidBoundary(doc, docOp.pos)
    /\ docOp.res = Some(5)

\* C8: a column inside a surrogate pair is snapped to the preceding boundary:
\* offset_at returns the byte offset at which the scalar value starts, and
\* position_at of it is the same line at column - 1.
C8_SnapsToPreceding ==
    docOp.name = "offset_at" =>
       \A k \in 1..MaxLen :
          InsidePair(doc, docOp.pos, k) =>
             /\ docOp.res = Some(doc.line_offsets[docOp.pos.line + 1]
                                 + ByteLen(SubSeq(LineText(doc, docOp.pos.line), 1, k - 1)))
             /\ position_at(doc, docOp.res.val)
                   = Position(docOp.pos.line, docOp.pos.column - 1)

\* C9: offset_at is absent exactly when the line does not exist; a column past
\* the end of the line is clamped to the end of that line, so the offset
\* returned is still on line p.line.
C9_ClampsToLineEnd ==
    docOp.name = "offset_at" =>
       /\ docOp.res.some <=> docOp.pos.line < line_count(doc)
       /\ (docOp.res.some /\ docOp.pos.column > Utf16Len(LineText(doc, docOp.pos.line)))
             => position_at(doc, docOp.res.val).line = docOp.pos.line

---------------------------------------------------------------------------
(* Claims about Document edits (DocSpec) *)

\* the scalar values of content that start at a byte index in lo..(hi - 1)
RECURSIVE CharsStartingIn(_, _, _, _)
CharsStartingIn(content, k, lo, hi) ==
    IF k > Len(content) THEN <<>>
    ELSE (IF lo <= ByteIndex(content, k) /\ ByteIndex(content, k) < hi
          THEN <<content[k]>> ELSE <<>>)
         \o CharsStartingIn(content, k + 1, lo, hi)

\* C10: apply_change(range, text) with range.start <= range.end completes and
\* sets the content to old[..s] + text + old[e..], s = offset_at(range.start)
\* or 0, e = offset_at(range.end) or the old length.
C10_ApplyChangeSplices ==
    \A r \in Ranges, t \in Texts :
       PosLe(r.start, r.end) =>
          LET so == offset_at(doc, r.start)
              eo == offset_at(doc, r.end)
              s == IF so.some THEN so.val ELSE 0
              e == IF eo.some THEN eo.val ELSE ByteLen(doc.content)
          IN  /\ s <= e
              /\ ~apply_change_underflows(doc, r)
              /\ apply_change(doc, r, t).content
                    = CharsStartingIn(doc.content, 1, 0, s) \o t
                      \o CharsStartingIn(doc.content, 1, e, ByteLen(doc.content))

C10_Witness ==
    /\ docOp.name = "apply_change"
    /\ docOp.ordered
    /\ doc.version = 1
    /\ doc.content = <<97, NL, 97>>

---------------------------------------------------------------------------
(* Spec: the daemon's State under the document notifications *)

URIs == {"a.py", "b.py"}

\* "def f():"
DefF == <<100, 101, 102, 32, 102, 40, 41, 58>>
\* "# TODO"
TodoLine == <<35, 32, 84, 79, 68, 79>>

\* "", "def f():", "# TODO", "def f():\n# TODO"
StateContents == {<<>>, DefF, TodoLine, DefF \o <<NL>> \o TodoLine}

MaxChanges == 2     \* most content changes of one didChange notification

ContentChanges == SeqsUpTo(StateContents, MaxChanges)

DocIdle ==
    /\ doc = Document_new(<<>>)
    /\ docOp = NoOp

Init ==
    /\ DocIdle
    /\ StateNew

SetState(st) ==
    /\ documents' = st.documents
    /\ symbol_index' = st.symbol_index
    /\ todo_index' = st.todo_index

did_open(uri, content) ==
    /\ SetState(open_document(TheState, uri, content))
    /\ lastMsg' = [method |-> "didOpen", uri |-> uri,
                   open_before |-> uri \in DOMAIN documents, changes |-> 1]
    /\ UNCHANGED <<toolVars, serverVars, doc, docOp>>

\* did_change that applies the first change of the list
did_change_first(uri, content_changes) ==
    /\ (uri \in DOMAIN documents /\ content_changes # <<>>)
          => documents[uri].version < MaxVersion
    /\ IF content_changes # <<>>
       THEN SetState(update_document(TheState, uri, content_changes[1]))
       ELSE UNCHANGED <<documents, symbol_index, todo_index>>
    /\ lastMsg' = [method |-> "didChange", uri |-> uri,
                   open_before |-> uri \in DOMAIN documents,
                   changes |-> Len(content_changes),
                   text |-> IF content_changes = <<>> THEN <<>>
                            ELSE content_changes[Len(content_changes)]]
    /\ UNCHANGED <<toolVars, serverVars, doc, docOp>>

\* full sync: the last change of the list is the new content
did_change(uri, content_changes) ==
    /\ (uri \in DOMAIN documents /\ content_changes # <<>>)
          => documents[uri].version < MaxVersion
    /\ IF content_changes # <<>>
       THEN SetState(update_document(TheState, uri,
                                     content_changes[Len(content_changes)]))
       ELSE UNCHANGED <<documents, symbol_index, todo_index>>
    /\ lastMsg' = [method |-> "didChange", uri |-> uri,
                   open_before |-> uri \in DOMAIN documents,
                   changes |-> Len(content_changes),
                   text |-> IF content_changes = <<>> THEN <<>>
                            ELSE content_changes[Len(content_changes)]]
    /\ UNCHANGED <<toolVars, serverVars, doc, docOp>>

did_close(uri) ==
    /\ SetState(close_document(TheState, uri))
    /\ lastMsg' = [method |-> "didClose", uri |-> uri,
                   open_before |-> uri \in DOMAIN documents, changes |-> 0]
    /\ UNCHANGED <<toolVars, serverVars, doc, docOp>>

Next ==
    \/ \E uri \in URIs, content \in StateContents : did_open(uri, content)
    \/ \E uri \in URIs, content_changes \in ContentChanges : did_change(uri, content_changes)
    \/ \E uri \in URIs : did_close(uri)

Spec == Init /\ [][Next]_vars

---------------------------------------------------------------------------
(* Claims about the daemon's State (Spec) *)

\* uri has no entry in the document store, the symbol index (its per-URI
\* lists and every key of its inverted index) or the TODO index
NoEntryFor(uri) ==
    /\ uri \notin DOMAIN documents
    /\ uri \notin DOMAIN symbol_index.symbols
    /\ \A key \in DOMAIN symbol_index.inverted : uri \notin symbol_index.inverted[key]
    /\ uri \notin DOMAIN todo_index

MutatedLast ==
    /\ lastMsg.method \in {"didOpen", "didChange"}
    /\ lastMsg.changes > 0
    /\ lastMsg.uri \in DOMAIN documents

\* C2: after a completed didOpen or didChange of a document, its symbol index
\* entry and its TODO index entry are the ones derived from its current content.
C2_DerivedStateRebuilt ==
    MutatedLast =>
       /\ get_document_symbols(symbol_index, lastMsg.uri)
             = IndexedSymbols(lastMsg.uri, ExtractSymbols(documents[lastMsg.uri].content))
       /\ get_document_todos(todo_index, lastMsg.uri)
             = ScanTodos(documents[lastMsg.uri].content)

\* C3: the symbol index and the TODO index hold symbols or items for a URI
\* only if the document store holds a document for it.
C3_NoOrphanDerivedState ==
    \A uri \in URIs :
       (\/ get_document_symbols(symbol_index, uri) # <<>>
        \/ \E key \in DOMAIN symbol_index.inverted : uri \in symbol_index.inverted[key]
        \/ get_document_todos(todo_index, uri) # <<>>)
          => uri \in DOMAIN documents

---------------------------------------------------------------------------
(* IndexSpec: a SymbolIndex under index_document, remove_document, search *)

\* "a", "Ab", "bab", and "a" followed by U+00E9 (two bytes in UTF-8)
SymbolNames == {<<97>>, <<65, 98>>, <<98, 97, 98>>, <<97, 233>>}

MaxSymbols == 2     \* most symbols of one document

SymbolLists == SeqsUpTo(SymbolNames, MaxSymbols)

\* "ab", "AB", "ba", "a"
Queries == {<<97, 98>>, <<65, 66>>, <<98, 97>>, <<97>>}

IndexInit ==
    /\ DocIdle
    /\ StateNew

IndexRunning == lastMsg.method # "panic"

IdxIndexDocument(uri, names) ==
    /\ IndexRunning
    /\ \/ /\ ~IndexPanics(symbol_index, uri, names)
          /\ symbol_index' = SymbolIndex_index_document(symbol_index, uri, names)
          /\ lastMsg' = [NoMsg EXCEPT !.method = "index_document", !.uri = uri]
       \/ /\ IndexPanics(symbol_index, uri, names)
          /\ symbol_index' = symbol_index
          /\ lastMsg' = [NoMsg EXCEPT !.method = "panic", !.uri = uri]
    /\ UNCHANGED <<toolVars, serverVars, doc, docOp, documents, todo_index>>

IdxRemoveDocument(uri) ==
    /\ IndexRunning
    /\ symbol_index' = SymbolIndex_remove_document(symbol_index, uri)
    /\ lastMsg' = [NoMsg EXCEPT !.method = "remove_document", !.uri = uri,
                                !.open_before = uri \in DOMAIN symbol_index.symbols]
    /\ UNCHANGED <<toolVars, serverVars, doc, docOp, documents, todo_index>>

IdxSearch(query) ==
    /\ IndexRunning
    /\ lastMsg' = [NoMsg EXCEPT !.method = "search",
                                !.changes = Cardinality(SymbolIndex_search(symbol_index, query))]
    /\ UNCHANGED <<toolVars, serverVars, doc, docOp, documents, symbol_index, todo_index>>

IndexNext ==
    \/ \E uri \in URIs, names \in SymbolLists : IdxIndexDocument(uri, names)
    \/ \E uri \in URIs : IdxRemoveDocument(uri)
    \/ \E query \in Queries : IdxSearch(query)

IndexSpec == IndexInit /\ [][IndexNext]_vars

---------------------------------------------------------------------------
(* Claims about the inverted index (IndexSpec) *)

Prefixes(s) == {SubSeq(s, 1, n) : n \in 0..Len(s)}

\* every key the index holds, and every prefix of a name that can be indexed
KeysOfInterest ==
    DOMAIN symbol_index.inverted
       \cup UNION {Prefixes(to_lowercase(name)) : name \in SymbolNames}

Under(uri, key) ==
    key \in DOMAIN symbol_index.inverted /\ uri \in symbol_index.inverted[key]

HasSymbolBeginning(uri, prefix) ==
    \E k \in 1..Len(get_document_symbols(symbol_index, uri)) :
       StartsWith(to_lowercase(get_document_symbols(symbol_index, uri)[k].name), prefix)

\* C4: the inverted index holds uri under key p if and only if p has 2
\* characters or more and uri has a symbol whose lowercased name begins with p.
C4_InvertedIndexExact ==
    \A uri \in URIs, p \in KeysOfInterest :
       Under(uri, p) <=> (Len(p) >= 2 /\ HasSymbolBeginning(uri, p))

\* C5: after a document is removed, no key of the inverted index holds its
\* URI, whatever the lengths of its symbol names, and no key maps to an
\* empty set.
C5_RemoveLeavesNothing ==
    lastMsg.method = "remove_document" =>
       /\ \A key \in DOMAIN symbol_index.inverted :
             lastMsg.uri \notin symbol_index.inverted[key]
       /\ \A key \in DOMAIN symbol_index.inverted : symbol_index.inverted[key] # {}

AllIndexedSymbols ==
    UNION {{get_document_symbols(symbol_index, u)[k] :
               k \in 1..Len(get_document_symbols(symbol_index, u))} : u \in URIs}

Matches(sym, query) == Contains(to_lowercase(sym.name), to_lowercase(query))

\* C6: a search for a query of 2 characters or more returns exactly the
\* indexed symbols whose lowercased name contains the lowercased query, and
\* the URIs the inverted index selects include every document with such a
\* symbol.
C6_SearchFindsSubstrings ==
    \A query \in Queries :
       Len(query) >= 2 =>
          /\ SymbolIndex_search(symbol_index, query)
                = {sym \in AllIndexedSymbols : Matches(sym, query)}
          /\ \A sym \in AllIndexedSymbols :
                Matches(sym, query)
                   => sym.uri \in InvertedIndex_search(symbol_index.inverted, query)

---------------------------------------------------------------------------
(* Claims about the line-offset cache and the version (DocSpec) *)

NewlineCount(content) == Cardinality({k \in 1..Len(content) : content[k] = NL})

\* the number of newline bytes among the first b bytes of the content
NewlinesBefore(content, b) ==
    Cardinality({k \in 1..Len(content) : content[k] = NL /\ ByteIndex(content, k) < b})

\* C11: after Document::new and after every set_content and apply_change the
\* cache starts with 0, has one entry more than the content has newlines, and
\* its entry i+1 is the byte index right after the newline that ends line i:
\* strictly increasing and at most the content's byte length
C11_LineOffsetsCache ==
    LET lo == doc.line_offsets
    IN  /\ Len(lo) = 1 + NewlineCount(doc.content)
        /\ lo[1] = 0
        /\ \A i \in 1..(Len(lo) - 1) :
               /\ lo[i] < lo[i + 1]
               /\ lo[i + 1] <= ByteLen(doc.content)
               /\ ByteIsNL(doc.content, lo[i + 1] - 1)
               /\ NewlinesBefore(doc.content, lo[i + 1]) = i

\* an apply_change has produced a content whose first line ends after a
\* four-byte scalar value
C11_Witness ==
    /\ docOp.name = "apply_change"
    /\ Len(doc.line_offsets) >= 2
    /\ doc.line_offsets[2] = 5

---------------------------------------------------------------------------
(* DocAllSpec: the mutating and the read-only operations of one Document,   *)
(* interleaved; edits draw their ranges from the positions around the start *)
(* of the first two lines                                                   *)

EditPositions == {Position(0, 0), Position(0, 1), Position(1, 0)}
EditRanges == {Range(s, e) : s \in EditPositions, e \in EditPositions}

DocContent ==
    /\ docOp' = [NoOp EXCEPT !.name = "content",
                             !.res = Some(ByteLen(doc.content))]
    /\ UNCHANGED <<doc, stateVars, serverVars, toolVars>>

DocAllNext ==
    \/ \E content \in DocContents : DocSetContent(content)
    \/ \E range \in EditRanges, text \in Texts : DocApplyChange(range, text)
    \/ DocContent
    \/ \E position \in Positions : DocOffsetAt(position)
    \/ \E offset \in Offsets : DocPositionAt(offset)
    \/ \E line_number \in 0..MaxLine : DocLine(line_number)
    \/ \E range \in EditRanges : DocTextInRange(range)

DocAllSpec == DocInit /\ [][DocAllNext]_vars

Mutators == {"set_content", "apply_change"}

\* C12: a document is created with version 0; a step that completes
\* set_content or apply_change raises the version by exactly 1, whatever the
\* new content; every other step (content, line, offset_at, position_at,
\* text_in_range) leaves version, content and cache as they were
C12_VersionCounts ==
    /\ [](docOp.name = "new" => doc.version = 0)
    /\ [][/\ docOp'.name \in Mutators => doc'.version = doc.version + 1
          /\ docOp'.name \notin Mutators => doc' = doc]_vars

\* a set_content has completed and brought the version to its bound
C12_Witness ==
    /\ docOp.name = "set_content"
    /\ doc.version = MaxVersion

\* C13: no Document operation fails loudly: an operation that was given a
\* range whose start position lies after its end position (text_in_range,
\* apply_change) returns instead of panicking
C13_NoLoudFailure == ~docOp.ordered => docOp.name # "panic"

---------------------------------------------------------------------------
(* ServerSpec: the daemon at the level of decoded messages. The handlers    *)
(* are those of handlers/lifecycle.rs and handlers/document.rs; the routing *)
(* of a message to its handler and the shutdown and exit flags follow the   *)
(* lifecycle rules of the protocol; the exit status is that of main.        *)

INVALID_PARAMS == -32602
SERVER_NOT_INITIALIZED == -32002

Response_success(result) == [code |-> 0, message |-> "", result |-> result]
Response_error(code, message) == [code |-> code, message |-> message, result |-> "none"]

\* params that serde_json::from_value fails to decode
Malformed == [decodes |-> FALSE]

\* decoded InitializeParams: the client may name the workspace root as a path
\* (root 1), as a URI (root 2), both ways or not at all
InitializeParams ==
    {[decodes |-> TRUE, root_path |-> p, root_uri |-> u] :
        p \in {None, Some(1)}, u \in {None, Some(2)}}

\* lifecycle::initialize that marks the state before it decodes the params
lifecycle_initialize_eager(st, params) ==
    IF ~params.decodes
    THEN [initialized |-> TRUE, root_path |-> st.root_path,
          response |-> Response_error(INVALID_PARAMS, "Invalid initialize params")]
    ELSE [initialized |-> TRUE,
          root_path |-> IF params.root_path.some THEN params.root_path
                        ELSE params.root_uri,
          response |-> Response_success("capabilities")]

lifecycle_initialize(st, params) ==
    IF ~params.decodes
    THEN [initialized |-> st.initialized, root_path |-> st.root_path,
          response |-> Response_error(INVALID_PARAMS, "Invalid initialize params")]
    ELSE [initialized |-> TRUE,
          root_path |-> IF params.root_path.some THEN params.root_path
                        ELSE params.root_uri,
          response |-> Response_success("capabilities")]

\* the decode step shared by the request handlers that take params
handle_request(method, params) ==
    IF ~params.decodes
    THEN Response_error(INVALID_PARAMS, "Invalid params")
    ELSE Response_success(method)

RequestMethods == {"textDocument/rename", "textDocument/references", "logos/safeDelete"}

ServerRunning == ~server.should_exit /\ io.status = None

\* lastMsg of a message: its method, and whether its params decoded
Msg(method, params) ==
    [NoMsg EXCEPT !.method = method,
                  !.uri = IF params.decodes THEN "decoded" ELSE "malformed"]

ServerInitialize(params) ==
    /\ ServerRunning
    /\ LET r == lifecycle_initialize([initialized |-> initialized,
                                      root_path |-> root_path], params)
       IN  /\ initialized' = r.initialized
           /\ root_path' = r.root_path
           /\ server' = [server EXCEPT !.response = r.response]
    /\ lastMsg' = Msg("initialize", params)
    /\ UNCHANGED <<toolVars, doc, docOp, documents, symbol_index, todo_index, io>>

ServerInitialized ==
    /\ ServerRunning
    /\ initialized' = TRUE
    /\ server' = [server EXCEPT !.response = NoResponse]
    /\ lastMsg' = [NoMsg EXCEPT !.method = "initialized"]
    /\ UNCHANGED <<toolVars, doc, docOp, documents, symbol_index, todo_index, root_path, io>>

ServerRequest(method, params) ==
    /\ ServerRunning
    /\ server' = [server EXCEPT !.response =
                      IF initialized THEN handle_request(method, params)
                      ELSE Response_error(SERVER_NOT_INITIALIZED, "Server not initialized")]
    /\ lastMsg' = Msg(method, params)
    /\ UNCHANGED <<toolVars, doc, docOp, documents, symbol_index, todo_index,
                   initialized, root_path, io>>

ServerShutdown ==
    /\ ServerRunning
    /\ server' = IF initialized
                 THEN [server EXCEPT !.shutdown_requested = TRUE,
                                     !.response = Response_success("null")]
                 ELSE [server EXCEPT !.response =
                           Response_error(SERVER_NOT_INITIALIZED, "Server not initialized")]
    /\ lastMsg' = [NoMsg EXCEPT !.method = "shutdown"]
    /\ UNCHANGED <<toolVars, doc, docOp, documents, symbol_index, todo_index,
                   initialized, root_path, io>>

\* exit sets the flag; main sees should_exit, leaves its loop and returns
ServerExit ==
    /\ ServerRunning
    /\ server' = [server EXCEPT !.should_exit = TRUE, !.response = NoResponse]
    /\ io' = [io EXCEPT !.status = Some(0)]
    /\ lastMsg' = [NoMsg EXCEPT !.method = "exit"]
    /\ UNCHANGED <<toolVars, doc, docOp, documents, symbol_index, todo_index,
                   initialized, root_path>>

\* a didOpen, didChange or didClose whose params fail to decode: warn and return
ServerMalformedNotification(method) ==
    /\ ServerRunning
    /\ lastMsg' = Msg(method, Malformed)
    /\ UNCHANGED <<toolVars, doc, docOp, documents, symbol_index, todo_index,
                   initialized, root_path, server, io>>

ServerNext ==
    \/ \E params \in InitializeParams \cup {Malformed} : ServerInitialize(params)
    \/ ServerInitialized
    \/ \E method \in RequestMethods, params \in {Malformed, [decodes |-> TRUE]} :
          ServerRequest(method, params)
    \/ ServerShutdown
    \/ ServerExit
    \/ \E method \in {"didOpen", "didChange", "didClose"} : ServerMalformedNotification(method)
    \/ \E content \in {DefF, TodoLine} : ServerRunning /\ did_open("a.py", content)
    \/ \E content \in {DefF, TodoLine} : ServerRunning /\ did_change("a.py", <<content>>)
    \/ ServerRunning /\ did_close("a.py")

ServerSpec == Init /\ [][ServerNext]_vars

---------------------------------------------------------------------------
(* Claims about the lifecycle and about malformed params (ServerSpec) *)

\* C14: the server becomes initialized only through a successful initialize
\* request: the flag turns true only in a step that answers an initialize
\* request with success, and while it is false every other request is
\* answered with ServerNotInitialized
C14_InitializedOnlyByInitialize ==
    [][/\ (~initialized /\ initialized')
             => (lastMsg'.method = "initialize" /\ server'.response.code = 0)
       /\ (~initialized /\ lastMsg'.method \in RequestMethods \cup {"shutdown"})
             => server'.response.code = SERVER_NOT_INITIALIZED]_vars

\* C15: the exit status tells whether shutdown came first: the process that
\* terminated on exit has status zero exactly when a shutdown request had
\* been accepted before
C15_ExitStatusFollowsShutdown ==
    (lastMsg.method = "exit" /\ io.status.some)
        => (io.status.val = 0 <=> server.shutdown_requested)

Notifications == {"didOpen", "didChange", "didClose"}

\* C17: a message whose params fail to decode leaves documents, symbol index,
\* TODO index, initialized flag and root path as they were; a request handler
\* answers it with InvalidParams and the decoding message, and a didOpen,
\* didChange or didClose is dropped without any response
C17_MalformedParamsRejected ==
    [][lastMsg'.uri = "malformed" =>
          /\ UNCHANGED <<documents, symbol_index, todo_index, initialized, root_path>>
          /\ (lastMsg'.method = "initialize"
                \/ (lastMsg'.method \in RequestMethods /\ initialized))
                => /\ server'.response.code = INVALID_PARAMS
                   /\ server'.response.message # ""
          /\ lastMsg'.method \in Notifications => UNCHANGED server]_vars

\* an initialize request with malformed params has been answered by a server
\* that was not initialized and held an open document
C17_Witness ==
    /\ lastMsg.method = "initialize"
    /\ lastMsg.uri = "malformed"
    /\ ~initialized
    /\ "a.py" \in DOMAIN documents
    /\ server.response.code = INVALID_PARAMS

---------------------------------------------------------------------------
(* MainSpec: the read loop of main over the bytes of stdin. A body handed   *)
(* to handle_message is recorded, and answered by one response on stdout.   *)

MaxMessages == 3    \* most messages the client writes before closing stdin

LF == 10
CR == 13
InvalidByte == 255  \* a byte that occurs in no UTF-8 encoding

\* "Content-Length: "
ContentLengthPrefix ==
    <<67, 111, 110, 116, 101, 110, 116, 45, 76, 101, 110, 103, 116, 104, 58, 32>>

\* read_header: lines are read until one is empty after trimming; the last
\* "Content-Length: " line decides, and none at all is an error. The result
\* says how the call ended and what is left unread.
read_header(bytes) ==
    LET \* BufRead::read_line: up to and including the first LF, or all that is left
        read_line(input) ==
            LET ends == {i \in 1..Len(input) : input[i] = LF}
                n == IF ends = {} THEN Len(input)
                     ELSE CHOOSE i \in ends : \A j \in ends : i <= j
            IN  [text |-> SubSeq(input, 1, n), rest |-> SubSeq(input, n + 1, Len(input))]
        \* str::trim on ASCII: without leading and trailing white space
        trim(text) ==
            LET inked == {i \in 1..Len(text) : text[i] \notin {32, 9, LF, 11, 12, CR}}
            IN  IF inked = {} THEN <<>>
                ELSE SubSeq(text, CHOOSE i \in inked : \A j \in inked : i <= j,
                                  CHOOSE i \in inked : \A j \in inked : i >= j)
        \* str::parse::<usize>: a non-empty run of decimal digits
        RECURSIVE parse(_)
        parse(value) ==
            IF value = <<>> \/ \E i \in 1..Len(value) : value[i] \notin 48..57 THEN None
            ELSE IF Len(value) = 1 THEN Some(value[1] - 48)
            ELSE Some(10 * parse(SubSeq(value, 1, Len(value) - 1)).val
                      + value[Len(value)] - 48)
        RECURSIVE loop(_, _)
        loop(input, content_length) ==
            IF input = <<>> THEN [kind |-> "eof", len |-> 0, rest |-> <<>>]
            ELSE LET rl == read_line(input)
                     header == trim(rl.text)
                     n == Len(ContentLengthPrefix)
                 IN  IF \E i \in 1..Len(rl.text) : rl.text[i] = InvalidByte
                     THEN [kind |-> "err", len |-> 0, rest |-> rl.rest]
                     ELSE IF header = <<>>
                     THEN IF content_length.some
                          THEN [kind |-> "ok", len |-> content_length.val, rest |-> rl.rest]
                          ELSE [kind |-> "err", len |-> 0, rest |-> rl.rest]
                     ELSE IF Len(header) >= n /\ SubSeq(header, 1, n) = ContentLengthPrefix
                     THEN loop(rl.rest, parse(SubSeq(header, n + 1, Len(header))))
                     ELSE loop(rl.rest, content_length)
    IN  loop(bytes, None)

\* one iteration of the loop of main
MainIteration ==
    /\ io.status = None
    /\ LET h == read_header(io.stdin)
           body == SubSeq(h.rest, 1, h.len)
           after == SubSeq(h.rest, h.len + 1, Len(h.rest))
       IN  io' = IF h.kind = "eof" THEN [io EXCEPT !.stdin = <<>>, !.status = Some(0)]
                 ELSE IF h.kind = "err" THEN [io EXCEPT !.stdin = h.rest]
                 ELSE IF Len(h.rest) < h.len THEN [io EXCEPT !.stdin = <<>>]
                 ELSE IF \E i \in 1..Len(body) : body[i] = InvalidByte
                 THEN [io EXCEPT !.stdin = after]
                 ELSE [io EXCEPT !.stdin = after,
                                 !.handled = Append(@, body),
                                 !.stdout = Append(@, body),
                                 !.status = IF server.should_exit THEN Some(0) ELSE None]
    /\ UNCHANGED <<toolVars, doc, docOp, stateVars, initialized, root_path, server>>

\* what a client writes: a header block and a body
Framed(body) ==
    [well_formed |-> \A i \in 1..Len(body) : body[i] # InvalidByte,
     header |-> ContentLengthPrefix \o <<48 + Len(body), CR, LF, CR, LF>>,
     body |-> body]
\* a header block "A: 1" without Content-Length
Unframed(body) ==
    [well_formed |-> FALSE, header |-> <<65, 58, 32, 49, CR, LF, CR, LF>>, body |-> body]

\* "{}", "[]" framed; a body that is not UTF-8; no Content-Length, without
\* and with body bytes
ClientMessages ==
    {Framed(<<123, 125>>), Framed(<<91, 93>>), Framed(<<InvalidByte, 125>>),
     Unframed(<<>>), Unframed(<<123, 125>>)}

RECURSIVE Wire(_)
Wire(messages) ==
    IF messages = <<>> THEN <<>>
    ELSE Head(messages).header \o Head(messages).body \o Wire(Tail(messages))

MainInit ==
    /\ DocIdle
    /\ documents = State_new.documents
    /\ symbol_index = State_new.symbol_index
    /\ todo_index = State_new.todo_index
    /\ lastMsg = NoMsg
    /\ initialized = FALSE
    /\ root_path = None
    /\ server = Server_new
    /\ tracker = ChangeTracker_new
    /\ analysis = NoAnalysis
    /\ io \in {[NoIo EXCEPT !.stdin = Wire(messages), !.client = messages] :
                  messages \in SeqsUpTo(ClientMessages, MaxMessages)}

MainSpec == MainInit /\ [][MainIteration]_vars

IsWellFormed(message) == message.well_formed

\* C16: a protocol error drops only the offending message: when the daemon
\* has read its input to the end, the bodies it handled, and the responses
\* it wrote, are those of the well-formed messages of the client, in order;
\* a message without Content-Length or with a body that is not UTF-8 has
\* no response and costs no other message
C16_OnlyOffendingMessageDropped ==
    io.status.some =>
        LET expected == SelectSeq(io.client, IsWellFormed)
        IN  /\ Len(io.handled) = Len(expected)
            /\ \A i \in 1..Len(expected) : io.handled[i] = expected[i].body
            /\ io.stdout = io.handled

---------------------------------------------------------------------------
(* RequestSpec: the request handlers for references, rename, safe delete    *)
(* and diagnostics, over a state whose symbol index and document store are  *)
(* filled. The result of a request is kept in lastMsg.                      *)

\* one declaration per line: the identifier of a document's k-th symbol
\* starts line k - 1
selection_range(symbol) ==
    Range(Position(symbol.ord - 1, 0), Position(symbol.ord - 1, Utf16Len(symbol.name)))

find_at_position(si, uri, position) ==
    LET symbols == get_document_symbols(si, uri)
        hits == {k \in 1..Len(symbols) :
                    /\ PosLe(selection_range(symbols[k]).start, position)
                    /\ PosLe(position, selection_range(symbols[k]).end)}
    IN  IF hits = {} THEN None ELSE Some(symbols[CHOOSE k \in hits : TRUE])

\* references::handle: one location for every symbol the search returns
references_handle(si, uri, position) ==
    LET symbol == find_at_position(si, uri, position)
    IN  IF ~symbol.some THEN {}
        ELSE {[uri |-> s.uri, range |-> selection_range(s), new_text |-> <<>>] :
                 s \in SymbolIndex_search(si, symbol.val.name)}

\* rename::handle: one edit for every symbol the search returns, under its URI
rename_handle(si, uri, position, new_name) ==
    LET symbol == find_at_position(si, uri, position)
    IN  IF ~symbol.some THEN {}
        ELSE {[uri |-> s.uri, range |-> selection_range(s), new_text |-> new_name] :
                 s \in SymbolIndex_search(si, symbol.val.name)}

Result(success, entries, list, text) ==
    [success |-> success, entries |-> entries, list |-> list, text |-> text]

\* safe_delete naming its usages with 0-based line and column
safe_delete_zero_based(docs, uri, input) ==
    IF uri \notin DOMAIN docs THEN Result(FALSE, {}, <<>>, "Document not found")
    ELSE IF ~input.language_ok THEN Result(FALSE, {}, <<>>, "Unsupported language")
    ELSE IF input.kind = "ok" THEN Result(TRUE, input.edits, <<>>, "")
    ELSE IF input.kind = "in_use"
    THEN Result(FALSE, {}, input.usages, "Symbol is still in use at: ")
    ELSE Result(FALSE, {}, <<>>, "error")

\* refactor::safe_delete; input is what the language lookup and the analysis
\* of logos_refactor::safe_delete::delete yield
safe_delete(docs, uri, input) ==
    IF uri \notin DOMAIN docs THEN Result(FALSE, {}, <<>>, "Document not found")
    ELSE IF ~input.language_ok THEN Result(FALSE, {}, <<>>, "Unsupported language")
    ELSE IF input.kind = "ok" THEN Result(TRUE, input.edits, <<>>, "")
    ELSE IF input.kind = "in_use"
    THEN Result(FALSE, {},
                [i \in 1..Len(input.usages) |->
                    [uri |-> input.usages[i].uri,
                     line |-> input.usages[i].line + 1,
                     column |-> input.usages[i].column + 1]],
                "Symbol is still in use at: ")
    ELSE Result(FALSE, {}, <<>>, "error")

\* extract_parse_errors: the error and the missing nodes of a tree, in
\* the order of a walk that visits a node before its children
RECURSIVE extract_parse_errors(_)
extract_parse_errors(node) ==
    LET own == IF node.is_error \/ node.is_missing
               THEN <<[severity |-> "Error", source |-> "logos-parser",
                       message |-> IF node.is_missing THEN "Missing" ELSE "Syntax error",
                       kind |-> IF node.is_missing THEN node.kind ELSE ""]>>
               ELSE <<>>
        RECURSIVE below(_)
        below(k) == IF k > Len(node.children) THEN <<>>
                    ELSE extract_parse_errors(node.children[k]) \o below(k + 1)
    IN  own \o below(1)

\* diagnostics::handle: "kind": "full", "items": []
diagnostics_handle(uri) == Result(TRUE, {}, <<>>, "full")

\* syntax trees: a clean one; an error node around a missing ")"; a missing ":"
Trees ==
    LET Node(kind, is_error, is_missing, children) ==
            [kind |-> kind, is_error |-> is_error, is_missing |-> is_missing,
             children |-> children]
    IN  {Node("module", FALSE, FALSE, <<Node("identifier", FALSE, FALSE, <<>>)>>),
         Node("module", FALSE, FALSE,
              <<Node("ERROR", TRUE, FALSE, <<Node(")", FALSE, TRUE, <<>>)>>)>>),
         Node("module", FALSE, FALSE,
              <<Node("identifier", FALSE, FALSE, <<>>), Node(":", FALSE, TRUE, <<>>)>>)}

\* the input of a request that has none
NoInput == [language_ok |-> TRUE, kind |-> "none", edits |-> {}, usages |-> <<>>,
            tree |-> [kind |-> "module", is_error |-> FALSE, is_missing |-> FALSE,
                      children |-> <<>>]]

\* what language lookup and analysis may yield for a safe delete
SafeDeleteInputs ==
    LET Usage(uri, l, c) == [uri |-> uri, line |-> l, column |-> c]
    IN
    {[NoInput EXCEPT !.language_ok = FALSE],
     [NoInput EXCEPT !.kind = "ok",
                     !.edits = {[range |-> Range(Position(0, 0), Position(1, 0)),
                                 new_text |-> <<>>]}],
     [NoInput EXCEPT !.kind = "in_use", !.usages = <<Usage("b.py", 0, 0)>>],
     [NoInput EXCEPT !.kind = "in_use",
                     !.usages = <<Usage("a.py", 1, 3), Usage("b.py", 0, 0)>>],
     [NoInput EXCEPT !.kind = "other"]}

Request(method, uri, position, input, result) ==
    [method |-> method, uri |-> uri, open_before |-> uri \in DOMAIN documents,
     changes |-> 0, position |-> position, input |-> input, result |-> result]

RequestReferences(uri, position) ==
    /\ lastMsg' = Request("textDocument/references", uri, position, NoInput,
                          Result(TRUE, references_handle(symbol_index, uri, position),
                                 <<>>, ""))
    /\ UNCHANGED <<toolVars, serverVars, doc, docOp, documents, symbol_index, todo_index>>

RequestRename(uri, position, new_name) ==
    /\ lastMsg' = Request("textDocument/rename", uri, position, NoInput,
                          Result(TRUE, rename_handle(symbol_index, uri, position, new_name),
                                 <<>>, ""))
    /\ UNCHANGED <<toolVars, serverVars, doc, docOp, documents, symbol_index, todo_index>>

RequestSafeDelete(uri, input) ==
    /\ lastMsg' = Request("logos/safeDelete", uri, NoPosition, input,
                          safe_delete(documents, uri, input))
    /\ UNCHANGED <<toolVars, serverVars, doc, docOp, documents, symbol_index, todo_index>>

\* tree: the syntax tree the parser holds for the document
RequestDiagnostic(uri, tree) ==
    /\ lastMsg' = Request("textDocument/diagnostic", uri, NoPosition,
                          [NoInput EXCEPT !.tree = tree], diagnostics_handle(uri))
    /\ UNCHANGED <<toolVars, serverVars, doc, docOp, documents, symbol_index, todo_index>>

RequestNext ==
    \/ \E uri \in URIs,
          names \in {<<<<97>>>>, <<<<65, 98>>>>, <<<<65, 98>>, <<98, 97, 98>>>>} :
             IdxIndexDocument(uri, names)
    \/ \E content \in {DefF, TodoLine} : did_open("a.py", content)
    \/ \E uri \in URIs, position \in Positions : RequestReferences(uri, position)
    \/ \E uri \in URIs, position \in Positions : RequestRename(uri, position, <<122>>)
    \/ \E uri \in URIs, input \in SafeDeleteInputs : RequestSafeDelete(uri, input)
    \/ \E uri \in URIs, tree \in Trees : RequestDiagnostic(uri, tree)

RequestSpec == Init /\ [][RequestNext]_vars

---------------------------------------------------------------------------
(* Claims about the request handlers (RequestSpec) *)

\* C18: safe delete never produces edits while usages exist: when the
\* analysis yields SymbolInUse(usages), the response has success = false, no
\* edits, and an error that lists every usage, in order, as uri:line:column
\* with line and column counted from 1; documents and indexes stay as they were
C18_SafeDeleteRefusesInUse ==
    [][(/\ lastMsg'.method = "logos/safeDelete"
        /\ lastMsg'.open_before
        /\ lastMsg'.input.language_ok
        /\ lastMsg'.input.kind = "in_use")
          => LET usages == lastMsg'.input.usages
                 result == lastMsg'.result
             IN  /\ ~result.success
                 /\ result.entries = {}
                 /\ Len(result.list) = Len(usages)
                 /\ \A i \in 1..Len(usages) :
                       /\ result.list[i].uri = usages[i].uri
                       /\ result.list[i].line = usages[i].line + 1
                       /\ result.list[i].column = usages[i].column + 1
                 /\ UNCHANGED <<documents, symbol_index, todo_index>>]_vars

\* a safe delete in an open document was refused because of two usages,
\* while the symbol index and the TODO index held entries
C18_Witness ==
    /\ lastMsg.method = "logos/safeDelete"
    /\ lastMsg.open_before
    /\ lastMsg.input.language_ok
    /\ Len(lastMsg.input.usages) = 2
    /\ Len(lastMsg.result.list) = 2
    /\ symbol_index.symbols # <<>>
    /\ todo_index # <<>>

Places(entries) == {[uri |-> e.uri, range |-> e.range] : e \in entries}

\* C19: references and rename at a position on a symbol s return one location
\* (one edit on the selection range, under its URI) for every indexed symbol
\* whose name equals s.name, s itself included, and nothing else, whatever
\* the length of the name
C19_ExactNameOccurrences ==
    lastMsg.method \in {"textDocument/references", "textDocument/rename"} =>
        LET s == find_at_position(symbol_index, lastMsg.uri, lastMsg.position)
        IN  s.some =>
               Places(lastMsg.result.entries)
                  = {[uri |-> t.uri, range |-> selection_range(t)] :
                        t \in {u \in AllIndexedSymbols : u.name = s.val.name}}

\* C20: parser errors surface as diagnostics: the diagnostics reported for an
\* open document have one item for every node of its syntax tree that is
\* marked error or missing, with severity Error, source "logos-parser" and
\* message "Missing <kind>" or "Syntax error"; the call itself succeeds
C20_ParserErrorsSurface ==
    (lastMsg.method = "textDocument/diagnostic" /\ lastMsg.open_before) =>
        /\ lastMsg.result.success
        /\ lastMsg.result.list = extract_parse_errors(lastMsg.input.tree)

---------------------------------------------------------------------------
(* Claims about full-content synchronisation (Spec) *)

\* C27: didChange is a full-content sync: with a non-empty list of changes
\* the open document's content becomes the text of the last change and its
\* version rises by exactly 1, whatever the earlier changes of the list were;
\* with an empty list documents, versions and indexes stay as they were
C27_FullContentSync ==
    [][lastMsg'.method = "didChange" =>
          IF lastMsg'.changes = 0
          THEN UNCHANGED <<documents, symbol_index, todo_index>>
          ELSE lastMsg'.uri \in DOMAIN documents =>
                  /\ DOMAIN documents' = DOMAIN documents
                  /\ documents'[lastMsg'.uri].content = lastMsg'.text
                  /\ documents'[lastMsg'.uri].version
                        = documents[lastMsg'.uri].version + 1
                  /\ \A u \in DOMAIN documents \ {lastMsg'.uri} :
                        documents'[u] = documents[u]]_vars

\* a didChange with two changes has replaced the content of an open document
\* by "def f():\n# TODO"
C27_Witness ==
    /\ lastMsg.method = "didChange"
    /\ lastMsg.changes = 2
    /\ lastMsg.open_before
    /\ documents[lastMsg.uri].content = DefF \o <<NL>> \o TodoLine
    /\ documents[lastMsg.uri].version = 1

---------------------------------------------------------------------------
(* Claims about names with multi-byte characters (IndexSpec) *)

\* C30: InvertedIndex::add and InvertedIndex::remove complete for every
\* symbol name, also for one with characters of more than one byte: no
\* indexing or removal of a document ends in a panic
C30_IndexNeverPanics == lastMsg.method # "panic"

---------------------------------------------------------------------------
(* IncSpec: an IncrementalIndexer with its ChangeTracker over a SymbolIndex *)

\* IncrementalIndexer::apply_changes, without the final clear of the tracker:
\* the index after the deleted documents are removed and the modified ones,
\* for which get_symbols yields a list, are indexed again; panics when one
\* of the index_document calls does. The calls for different URIs commute.
apply_changes(index, t, get_symbols) ==
    LET RECURSIVE RemoveDocs(_, _)
        RemoveDocs(si, uris) ==
            IF uris = {} THEN si
            ELSE LET u == CHOOSE u \in uris : TRUE
                 IN  RemoveDocs(SymbolIndex_remove_document(si, u), uris \ {u})
        RECURSIVE IndexDocs(_, _)
        IndexDocs(si, uris) ==
            IF uris = {} THEN si
            ELSE LET u == CHOOSE u \in uris : TRUE
                 IN  IndexDocs(IF get_symbols[u].some
                               THEN SymbolIndex_index_document(si, u, get_symbols[u].val)
                               ELSE si,
                               uris \ {u})
        removed == RemoveDocs(index, t.deleted)
        panics == \E u \in t.modified :
                     get_symbols[u].some /\ IndexPanics(removed, u, get_symbols[u].val)
    IN  [panics |-> panics,
         index |-> IF panics THEN index ELSE IndexDocs(removed, t.modified)]

\* what the get_symbols closure may yield for one URI: nothing, or a list
\* ("Ab"; "a", "bab"; "a" followed by U+00E9)
SymbolsOrNone ==
    {[some |-> FALSE, val |-> <<>>]}
       \cup {[some |-> TRUE, val |-> names] :
                names \in {<<<<65, 98>>>>, <<<<97>>, <<98, 97, 98>>>>, <<<<97, 233>>>>}}

IncMsg(method, uri, get_symbols) ==
    [method |-> method, uri |-> uri, open_before |-> FALSE, changes |-> 0,
     get_symbols |-> get_symbols]

NoSymbolsFor == [u \in URIs |-> [some |-> FALSE, val |-> <<>>]]

\* document_changed: ChangeTracker::mark_modified
IncDocumentChanged(uri) ==
    /\ IndexRunning
    /\ tracker' = [modified |-> tracker.modified \cup {uri},
                   deleted |-> tracker.deleted \ {uri}]
    /\ lastMsg' = IncMsg("document_changed", uri, NoSymbolsFor)
    /\ UNCHANGED <<doc, docOp, documents, symbol_index, todo_index, serverVars, analysis>>

\* document_closed: ChangeTracker::mark_deleted
IncDocumentClosed(uri) ==
    /\ IndexRunning
    /\ tracker' = [modified |-> tracker.modified \ {uri},
                   deleted |-> tracker.deleted \cup {uri}]
    /\ lastMsg' = IncMsg("document_closed", uri, NoSymbolsFor)
    /\ UNCHANGED <<doc, docOp, documents, symbol_index, todo_index, serverVars, analysis>>

IncApplyChanges(get_symbols) ==
    /\ IndexRunning
    /\ LET r == apply_changes(symbol_index, tracker, get_symbols)
       IN  IF r.panics
           THEN /\ lastMsg' = IncMsg("panic", "none", get_symbols)
                /\ UNCHANGED <<symbol_index, tracker>>
           ELSE /\ lastMsg' = IncMsg("apply_changes", "none", get_symbols)
                /\ symbol_index' = r.index
                /\ tracker' = ChangeTracker_new
    /\ UNCHANGED <<doc, docOp, documents, todo_index, serverVars, analysis>>

IncSpec ==
    IndexInit /\ [][\/ \E uri \in URIs : IncDocumentChanged(uri)
                    \/ \E uri \in URIs : IncDocumentClosed(uri)
                    \/ \E get_symbols \in [URIs -> SymbolsOrNone] :
                          IncApplyChanges(get_symbols)]_vars

\* C28: the last event of a URI wins. document_changed and document_closed
\* leave the URI in exactly the set of their kind, so no URI is in both; an
\* apply_changes completes, leaves no entry for a URI marked deleted, leaves
\* a URI marked modified for which get_symbols yields a list indexed with
\* exactly that list, and leaves nothing pending
C28_LastEventWins ==
    [][/\ tracker'.modified \cap tracker'.deleted = {}
       /\ lastMsg'.method = "document_changed"
             => lastMsg'.uri \in tracker'.modified
       /\ lastMsg'.method = "document_closed"
             => lastMsg'.uri \in tracker'.deleted
       /\ lastMsg'.method # "panic"
       /\ lastMsg'.method = "apply_changes"
             => /\ \A u \in tracker.deleted : u \notin DOMAIN symbol_index'.symbols
                /\ \A u \in tracker.modified :
                      lastMsg'.get_symbols[u].some
                         => get_document_symbols(symbol_index', u)
                               = IndexedSymbols(u, lastMsg'.get_symbols[u].val)
                /\ tracker' = ChangeTracker_new]_vars

\* C29: apply_changes loses no pending modification: a URI marked modified
\* for which get_symbols yields nothing either stays pending or has no
\* symbols left in the index
C29_NoLostModification ==
    [][lastMsg'.method = "apply_changes"
          => \A u \in tracker.modified :
                ~lastMsg'.get_symbols[u].some
                   => \/ u \in tracker'.modified
                      \/ get_document_symbols(symbol_index', u) = <<>>]_vars

---------------------------------------------------------------------------
(* SemanticSpec: logos-semantic's ScopeTree and SymbolResolver over a
   symbol tree *)

MaxSymbolLine == 2    \* last line of an analysed source

\* Range::contains: start <= position <= end in Position's ordering
Range_contains(range, position) ==
    PosLe(range.start, position) /\ PosLe(position, range.end)

\* The symbol lists of the sources of lines lo..hi, in source order. Every
\* line is blank, or declares a symbol without children on that line, or
\* opens a symbol that runs to the end of a line b below it, the symbols of
\* the lines between being its children. A symbol spans its lines from
\* column 0 to column MaxCol, its name is at columns 1..2 of its first line.
RECURSIVE SymbolTrees(_, _)
SymbolTrees(lo, hi) ==
    LET Symbol(name, first, last, children) ==
            [name |-> name,
             range |-> Range(Position(first, 0), Position(last, MaxCol)),
             selection_range |-> Range(Position(first, 1), Position(first, 2)),
             children |-> children]
    IN  IF lo > hi THEN {<<>>}
        ELSE SymbolTrees(lo + 1, hi)
                \cup {<<Symbol(name, lo, lo, <<>>)>> \o rest :
                         name \in {<<97>>, <<98>>}, rest \in SymbolTrees(lo + 1, hi)}
                \cup UNION {{<<Symbol(name, lo, b, children)>> \o rest :
                                name \in {<<97>>, <<98>>},
                                children \in SymbolTrees(lo + 1, b),
                                rest \in SymbolTrees(b + 1, hi)} :
                            b \in (lo + 1)..hi}

\* SymbolResolver::find_in_symbols; the result is a list of at most one symbol
RECURSIVE find_in_symbols(_, _)
find_in_symbols(symbols, position) ==
    IF symbols = <<>> THEN <<>>
    ELSE LET symbol == Head(symbols)
             child == find_in_symbols(symbol.children, position)
         IN  IF Range_contains(symbol.selection_range, position) THEN <<symbol>>
             ELSE IF Range_contains(symbol.range, position) /\ child # <<>> THEN child
             ELSE find_in_symbols(Tail(symbols), position)

\* from_symbols without the push of a new scope on its parent's children
from_symbols_unlinked(symbols) ==
    LET RECURSIVE add_scopes_from_symbols(_, _, _)
        add_scopes_from_symbols(scopes, syms, parent_id) ==
            IF syms = <<>> THEN scopes
            ELSE LET symbol == Head(syms)
                     scope_id == Len(scopes)
                     added == Append(scopes, [id |-> scope_id,
                                              parent |-> Some(parent_id),
                                              range |-> symbol.range,
                                              name |-> <<symbol.name>>,
                                              children |-> <<>>])
                 IN  IF symbol.children # <<>>
                     THEN add_scopes_from_symbols(
                              add_scopes_from_symbols(added, symbol.children, scope_id),
                              Tail(syms), parent_id)
                     ELSE add_scopes_from_symbols(scopes, Tail(syms), parent_id)
        starts == {symbols[k].range.start : k \in 1..Len(symbols)}
        ends == {symbols[k].range.end : k \in 1..Len(symbols)}
        min_start == CHOOSE p \in starts : \A q \in starts : PosLe(p, q)
        max_end == CHOOSE p \in ends : \A q \in ends : PosLe(q, p)
        root == [id |-> 0, parent |-> None, range |-> Range(min_start, max_end),
                 name |-> <<>>, children |-> <<>>]
    IN  IF symbols = <<>> THEN ScopeTree_new
        ELSE [scopes |-> add_scopes_from_symbols(<<root>>, symbols, 0),
              root |-> Some(0)]

\* ScopeTree::from_symbols with add_scopes_from_symbols and add_scope: the
\* scope of id i is scopes[i + 1]; a scope's name is a list of at most one
\* name. min_start and max_end are the least start and the greatest end of
\* the top-level ranges.
from_symbols(symbols) ==
    LET RECURSIVE add_scopes_from_symbols(_, _, _)
        add_scopes_from_symbols(scopes, syms, parent_id) ==
            IF syms = <<>> THEN scopes
            ELSE LET symbol == Head(syms)
                     scope_id == Len(scopes)
                     added == Append(scopes, [id |-> scope_id,
                                              parent |-> Some(parent_id),
                                              range |-> symbol.range,
                                              name |-> <<symbol.name>>,
                                              children |-> <<>>])
                     linked == [added EXCEPT ![parent_id + 1].children =
                                                Append(@, scope_id)]
                 IN  IF symbol.children # <<>>
                     THEN add_scopes_from_symbols(
                              add_scopes_from_symbols(linked, symbol.children, scope_id),
                              Tail(syms), parent_id)
                     ELSE add_scopes_from_symbols(scopes, Tail(syms), parent_id)
        starts == {symbols[k].range.start : k \in 1..Len(symbols)}
        ends == {symbols[k].range.end : k \in 1..Len(symbols)}
        min_start == CHOOSE p \in starts : \A q \in starts : PosLe(p, q)
        max_end == CHOOSE p \in ends : \A q \in ends : PosLe(q, p)
        root == [id |-> 0, parent |-> None, range |-> Range(min_start, max_end),
                 name |-> <<>>, children |-> <<>>]
    IN  IF symbols = <<>> THEN ScopeTree_new
        ELSE [scopes |-> add_scopes_from_symbols(<<root>>, symbols, 0),
              root |-> Some(0)]

\* ScopeTree::scope_at with find_scope_at: the first child that yields a
\* scope wins, else the scope itself; nothing outside the scope's range
RECURSIVE find_scope_at(_, _, _)
find_scope_at(tree, scope_id, position) ==
    IF scope_id + 1 \notin DOMAIN tree.scopes THEN None
    ELSE LET scope == tree.scopes[scope_id + 1]
             inner == {k \in 1..Len(scope.children) :
                          find_scope_at(tree, scope.children[k], position).some}
         IN  IF ~Range_contains(scope.range, position) THEN None
             ELSE IF inner = {} THEN Some(scope_id)
             ELSE find_scope_at(tree,
                                scope.children[CHOOSE k \in inner :
                                                  \A j \in inner : k <= j],
                                position)

\* SymbolResolver::find_definition with search_scopes_for_definition; the
\* result is a list of at most one symbol
find_definition(tree, symbols, name, from_position) ==
    LET RECURSIVE search_scopes_for_definition(_)
        search_scopes_for_definition(scope_id) ==
            IF ~scope_id.some \/ scope_id.val + 1 \notin DOMAIN tree.scopes THEN <<>>
            ELSE LET scope == tree.scopes[scope_id.val + 1]
                     hits == {k \in 1..Len(symbols) :
                                 /\ Range_contains(scope.range,
                                                   symbols[k].selection_range.start)
                                 /\ symbols[k].name = name}
                 IN  IF hits # {}
                     THEN <<symbols[CHOOSE k \in hits : \A j \in hits : k <= j]>>
                     ELSE IF scope.parent.some
                     THEN search_scopes_for_definition(scope.parent)
                     ELSE <<>>
    IN  search_scopes_for_definition(
            IF tree.root.some THEN find_scope_at(tree, tree.root.val, from_position)
            ELSE None)

SemanticPositions == {Position(l, c) : l \in 0..MaxSymbolLine, c \in 0..MaxCol}

\* a source is analysed once: its symbols and the scope tree built from
\* them, which the resolver then borrows unchanged
SemFromSymbols(symbols) ==
    /\ analysis.op = "new"
    /\ analysis' = [NoAnalysis EXCEPT !.op = "from_symbols", !.symbols = symbols,
                                      !.tree = from_symbols(symbols)]
    /\ UNCHANGED <<doc, docOp, stateVars, serverVars, tracker>>

SemFindSymbolAt(position) ==
    /\ analysis.op # "new"
    /\ analysis' = [analysis EXCEPT !.op = "find_symbol_at", !.position = position,
                                    !.name = <<>>,
                                    !.result = find_in_symbols(analysis.symbols, position)]
    /\ UNCHANGED <<doc, docOp, stateVars, serverVars, tracker>>

SemFindDefinition(name, from_position) ==
    /\ analysis.op # "new"
    /\ analysis' = [analysis EXCEPT !.op = "find_definition",
                                    !.position = from_position, !.name = name,
                                    !.result = find_definition(analysis.tree,
                                                               analysis.symbols,
                                                               name, from_position)]
    /\ UNCHANGED <<doc, docOp, stateVars, serverVars, tracker>>

SemanticSpec ==
    IndexInit /\ [][\/ \E symbols \in SymbolTrees(0, MaxSymbolLine) :
                          SemFromSymbols(symbols)
                    \/ \E position \in SemanticPositions : SemFindSymbolAt(position)
                    \/ \E name \in {<<97>>, <<98>>}, position \in SemanticPositions :
                          SemFindDefinition(name, position)]_vars


\* every symbol of a symbol tree with its nesting depth
RECURSIVE SymbolsAtDepth(_, _)
SymbolsAtDepth(symbols, depth) ==
    IF symbols = <<>> THEN {}
    ELSE {[symbol |-> Head(symbols), depth |-> depth]}
            \cup SymbolsAtDepth(Head(symbols).children, depth + 1)
            \cup SymbolsAtDepth(Tail(symbols), depth)

\* C21: find_symbol_at returns a deepest symbol whose selection range
\* contains the position; when no selection range contains it, a deepest
\* symbol whose full range contains it; and nothing only when no full range
\* contains the position
C21_FindSymbolAtFallsBack ==
    analysis.op = "find_symbol_at"
       => LET all == SymbolsAtDepth(analysis.symbols, 0)
              bySelection == {e \in all : Range_contains(e.symbol.selection_range,
                                                         analysis.position)}
              byRange == {e \in all : Range_contains(e.symbol.range, analysis.position)}
              expected == IF bySelection # {} THEN bySelection ELSE byRange
          IN  IF expected = {} THEN analysis.result = <<>>
              ELSE /\ analysis.result # <<>>
                   /\ \E e \in expected :
                         /\ e.symbol = analysis.result[1]
                         /\ \A f \in expected : f.depth <= e.depth

\* the symbols find_definition may return by its contract: those of the
\* tree, at any depth, of the given name whose selection range starts in the
\* innermost scope, from scope_id outward, that has any
RECURSIVE DefinitionsInScopes(_, _, _, _)
DefinitionsInScopes(tree, symbols, name, scope_id) ==
    IF ~scope_id.some THEN {}
    ELSE LET scope == tree.scopes[scope_id.val + 1]
             matches == {e.symbol : e \in
                            {e \in SymbolsAtDepth(symbols, 0) :
                                /\ Range_contains(scope.range,
                                                  e.symbol.selection_range.start)
                                /\ e.symbol.name = name}}
         IN  IF matches # {} THEN matches
             ELSE DefinitionsInScopes(tree, symbols, name, scope.parent)

\* C22: find_definition returns a symbol of the tree, at any nesting depth,
\* of the given name whose selection range starts in the innermost scope
\* around from_position, walking outward, that has one; and nothing only
\* when no scope of the chain has one
C22_FindDefinitionSeesNested ==
    analysis.op = "find_definition"
       => LET expected ==
                  DefinitionsInScopes(analysis.tree, analysis.symbols, analysis.name,
                                      IF analysis.tree.root.some
                                      THEN find_scope_at(analysis.tree, 0,
                                                         analysis.position)
                                      ELSE None)
          IN  IF expected = {} THEN analysis.result = <<>>
              ELSE analysis.result # <<>> /\ analysis.result[1] \in expected

\* C23: a ScopeTree built from an empty list has no scopes and no root; one
\* built from a non-empty list has the scope of id i at index i, the root
\* at 0 without parent and spanning the bounding range of the top-level
\* symbols, every other scope with a smaller parent id and exactly once in
\* that parent's children, and exactly one non-root scope per symbol that
\* has children
C23_ScopeTreeShape ==
    analysis.op # "new"
       => LET scopes == analysis.tree.scopes
              symbols == analysis.symbols
              parents == {e.symbol : e \in {e \in SymbolsAtDepth(symbols, 0) :
                                               e.symbol.children # <<>>}}
          IN  IF symbols = <<>>
              THEN scopes = <<>> /\ ~analysis.tree.root.some
              ELSE /\ analysis.tree.root = Some(0)
                   /\ \A i \in 1..Len(scopes) : scopes[i].id = i - 1
                   /\ ~scopes[1].parent.some
                   /\ \A k \in 1..Len(symbols) :
                         /\ PosLe(scopes[1].range.start, symbols[k].range.start)
                         /\ PosLe(symbols[k].range.end, scopes[1].range.end)
                   /\ \E k \in 1..Len(symbols) :
                         scopes[1].range.start = symbols[k].range.start
                   /\ \E k \in 1..Len(symbols) :
                         scopes[1].range.end = symbols[k].range.end
                   /\ \A i \in 2..Len(scopes) :
                         /\ scopes[i].parent.some
                         /\ scopes[i].parent.val < scopes[i].id
                         /\ LET children == scopes[scopes[i].parent.val + 1].children
                            IN  Cardinality({k \in 1..Len(children) :
                                                children[k] = scopes[i].id}) = 1
                   /\ Len(scopes) - 1 = Cardinality(parents)
                   /\ \A symbol \in parents :
                         Cardinality({i \in 2..Len(scopes) :
                                         /\ scopes[i].range = symbol.range
                                         /\ scopes[i].name = <<symbol.name>>}) = 1

\* a tree was built from a list in which a symbol with children has a child
\* with children: three scopes, the last one below a scope other than the root
C23_Witness ==
    /\ analysis.op = "from_symbols"
    /\ Len(analysis.tree.scopes) = 3
    /\ analysis.tree.scopes[3].parent = Some(1)
    /\ analysis.tree.scopes[2].children = <<2>>

---------------------------------------------------------------------------
(* ExtractSpec: the symbol extractors over a syntax tree. A tree is the     *)
(* list of the named children of its root. A node has a kind, the points    *)
(* where it starts and ends, at most one name sub-node, and its body's      *)
(* named children. Kind "function" is a function_definition in C++ and a    *)
(* function_declaration in TypeScript, or a method_definition in a class    *)
(* body; kind "class" is a class_specifier or a class_declaration; kind     *)
(* "variable" is a declaration in C++ and a lexical_declaration of one      *)
(* variable_declarator in TypeScript, or a field definition in a class      *)
(* body, its children being those of the body of its value; kind "export"   *)
(* is an export_statement in TypeScript, whose is_default tells that it has *)
(* a child "default", and a node of no extracted kind in C++.               *)

\* "anonymous"
Anonymous == <<97, 110, 111, 110, 121, 109, 111, 117, 115>>

\* "method"
MethodName == <<109, 101, 116, 104, 111, 100>>

\* "field"
FieldName == <<102, 105, 101, 108, 100>>

\* "var"
VarName == <<118, 97, 114>>

\* The syntax trees of the sources of lines lo..hi. A node runs from column
\* 0 of its first line to column MaxCol of its last; its name, if any, is at
\* columns 1..2 of its first line; its children are on the lines below the
\* first. An export statement is at the top level and has one declaration.
RECURSIVE SyntaxTrees(_, _, _)
SyntaxTrees(lo, hi, top) ==
    LET Node(kind, named, is_default, last, children) ==
            [kind |-> kind,
             start |-> [row |-> lo, column |-> 0],
             end |-> [row |-> last, column |-> MaxCol],
             name |-> IF named
                      THEN <<[text |-> <<97>>,
                              start |-> [row |-> lo, column |-> 1],
                              end |-> [row |-> lo, column |-> 2]]>>
                      ELSE <<>>,
             is_default |-> is_default,
             children |-> children]
        Declarations(last) ==
            {Node(kind, named, FALSE, last, children) :
                kind \in {"function", "class", "variable"}, named \in BOOLEAN,
                children \in SyntaxTrees(lo + 1, last, FALSE)}
        Exports(last) ==
            IF ~top THEN {}
            ELSE {Node("export", FALSE, is_default, last, children) :
                     is_default \in BOOLEAN,
                     children \in {c \in SyntaxTrees(lo + 1, last, FALSE) : Len(c) = 1}}
    IN  IF lo > hi THEN {<<>>}
        ELSE SyntaxTrees(lo + 1, hi, top)
                \cup UNION {{<<node>> \o rest :
                                node \in Declarations(last) \cup Exports(last),
                                rest \in SyntaxTrees(last + 1, hi, top)} :
                            last \in lo..hi}

\* node_to_range with end before start
node_to_range_reversed(node) ==
    Range(Position(node.end.row, node.end.column),
          Position(node.start.row, node.start.column))

\* node_to_range: a node's start and end points as a Range
node_to_range(node) ==
    Range(Position(node.start.row, node.start.column),
          Position(node.end.row, node.end.column))

\* cpp::extract_symbols over the children of the root, the root being of no
\* extracted kind: extract_symbols_from_node for functions, classes and
\* other nodes, with extract_class_members for the body of a class
RECURSIVE extract_symbols(_)
extract_symbols(nodes) ==
    LET Symbol(node, children) ==
            [name |-> node.name[1].text, range |-> node_to_range(node),
             selection_range |-> node_to_range(node.name[1]), children |-> children]
        RECURSIVE extract_class_members(_)
        extract_class_members(members) ==
            IF members = <<>> THEN <<>>
            ELSE (IF Head(members).kind \in {"function", "variable"}
                     /\ Head(members).name # <<>>
                  THEN <<Symbol(Head(members), <<>>)>>
                  ELSE <<>>)
                    \o extract_class_members(Tail(members))
    IN  IF nodes = <<>> THEN <<>>
        ELSE LET node == Head(nodes)
             IN  (CASE node.kind = "function" ->
                          IF node.name # <<>> THEN <<Symbol(node, <<>>)>> ELSE <<>>
                    [] node.kind = "class" ->
                          IF node.name # <<>>
                          THEN <<Symbol(node, extract_class_members(node.children))>>
                          ELSE <<>>
                    [] OTHER -> extract_symbols(node.children))
                    \o extract_symbols(Tail(nodes))

\* TypeScriptAdapter::analyze over the children of the root: analyze_node
\* with analyze_export, analyze_function, analyze_class, analyze_class_body,
\* analyze_method, analyze_field and analyze_variable. how names the loop that walks the nodes, parent the
\* node whose children they are.
analyze(tree) ==
    LET name_of(node, default) == IF node.name # <<>> THEN node.name[1].text ELSE default
        push_symbol(ctx, node, default, exported) ==
            [ctx EXCEPT !.symbols =
                Append(@, [name |-> name_of(node, default),
                           range |-> node_to_range(node),
                           selection_range |-> IF node.name # <<>>
                                               THEN node_to_range(node.name[1])
                                               ELSE node_to_range(node),
                           exported |-> exported])]
        push_export(ctx, name, is_default, at) ==
            [ctx EXCEPT !.exports =
                Append(@, [name |-> name, is_default |-> is_default,
                           location |-> node_to_range(at)])]
        declare(ctx, node, default, is_default) ==
            LET pushed == push_symbol(ctx, node, default, ctx.is_exported)
            IN  IF ctx.is_exported
                THEN push_export(pushed, name_of(node, default), is_default, node)
                ELSE pushed
        RECURSIVE walk(_, _, _, _)
        analyze_function(node, ctx, is_default) ==
            walk(node.children, declare(ctx, node, Anonymous, is_default), "node", node)
        analyze_class(node, ctx) ==
            walk(node.children, declare(ctx, node, Anonymous, FALSE), "class_body", node)
        analyze_variable(node, ctx) ==
            walk(node.children, declare(ctx, node, VarName, FALSE), "node", node)
        analyze_export(node, ctx) ==
            [walk(node.children, [ctx EXCEPT !.is_exported = TRUE], "export", node)
                EXCEPT !.is_exported = ctx.is_exported]
        analyze_node(node, ctx) ==
            CASE node.kind = "export" -> analyze_export(node, ctx)
              [] node.kind = "function" -> analyze_function(node, ctx, FALSE)
              [] node.kind = "class" -> analyze_class(node, ctx)
              [] node.kind = "variable" -> analyze_variable(node, ctx)
        walk(nodes, ctx, how, parent) ==
            IF nodes = <<>> THEN ctx
            ELSE LET node == Head(nodes)
                     class == analyze_class(node, ctx)
                     after ==
                        CASE how = "class_body" ->
                                IF node.kind = "function"
                                THEN walk(node.children,
                                          push_symbol(ctx, node, MethodName, FALSE),
                                          "node", node)
                                ELSE IF node.kind = "variable"
                                THEN push_symbol(ctx, node, FieldName, FALSE)
                                ELSE ctx
                          [] how = "export" /\ node.kind = "function" ->
                                analyze_function(node, ctx, parent.is_default)
                          [] how = "export" /\ node.kind = "class" ->
                                IF parent.is_default /\ class.symbols # <<>>
                                THEN push_export(class,
                                                 class.symbols[Len(class.symbols)].name,
                                                 TRUE, parent)
                                ELSE class
                          [] OTHER -> analyze_node(node, ctx)
                 IN  walk(Tail(nodes), after, how, parent)
    IN  walk(tree, [symbols |-> <<>>, exports |-> <<>>, is_exported |-> FALSE],
             "node", [is_default |-> FALSE])

\* cpp::extract_symbols of a parsed C++ source
ExtractCpp ==
    /\ analysis.op = "new"
    /\ \E tree \in SyntaxTrees(0, MaxSymbolLine, TRUE) :
          analysis' = [NoAnalysis EXCEPT !.op = "extract_symbols", !.source = tree,
                                         !.symbols = extract_symbols(tree)]
    /\ UNCHANGED <<doc, docOp, stateVars, serverVars, tracker>>

\* TypeScriptAdapter::analyze of a parsed TypeScript source
AnalyzeTypeScript ==
    /\ analysis.op = "new"
    /\ \E tree \in SyntaxTrees(0, MaxSymbolLine, TRUE) :
          analysis' = [NoAnalysis EXCEPT !.op = "analyze", !.source = tree,
                                         !.symbols = analyze(tree).symbols,
                                         !.exports = analyze(tree).exports]
    /\ UNCHANGED <<doc, docOp, stateVars, serverVars, tracker>>

ExtractSpec == IndexInit /\ [][ExtractCpp \/ AnalyzeTypeScript]_vars

\* the symbols an extraction produced, at every nesting depth
ExtractedSymbols ==
    IF analysis.op = "extract_symbols"
    THEN {e.symbol : e \in SymbolsAtDepth(analysis.symbols, 0)}
    ELSE {analysis.symbols[k] : k \in 1..Len(analysis.symbols)}

\* C24: every symbol the C++ extractor or the TypeScript adapter produces,
\* at every nesting depth and also for trees with nodes that lack a name,
\* has its selection range inside its full range
C24_SelectionInsideRange ==
    analysis.op \in {"extract_symbols", "analyze"}
       => \A symbol \in ExtractedSymbols :
             /\ PosLe(symbol.range.start, symbol.selection_range.start)
             /\ PosLe(symbol.selection_range.end, symbol.range.end)

\* the TypeScript adapter analysed a function without a name whose body
\* declares a named variable: one symbol whose selection range is its full
\* range, one whose selection range is its name
C24_Witness ==
    /\ analysis.op = "analyze"
    /\ Len(analysis.source) = 1
    /\ analysis.source[1].kind = "function"
    /\ analysis.source[1].name = <<>>
    /\ Len(analysis.source[1].children) = 1
    /\ analysis.source[1].children[1].kind = "variable"
    /\ analysis.source[1].children[1].name # <<>>
    /\ Len(analysis.symbols) = 2
    /\ analysis.symbols[1].selection_range = analysis.symbols[1].range
    /\ analysis.symbols[2].selection_range # analysis.symbols[2].range

\* C25: a top-level declaration node without a name (a class in C++; a
\* function, class or variable in TypeScript) is emitted as a symbol named
\* "anonymous", and the declarations of its body are emitted too: the named
\* members of the class in C++, every declaration in TypeScript, under its
\* name or as "anonymous"
C25_AnonymousEmitted ==
    analysis.op \in {"extract_symbols", "analyze"}
       => LET cpp == analysis.op = "extract_symbols"
              emitted(node) ==
                  \E symbol \in ExtractedSymbols :
                     /\ symbol.range = node_to_range(node)
                     /\ symbol.name = IF node.name # <<>> THEN node.name[1].text
                                      ELSE Anonymous
              declarations == IF cpp THEN {"class"}
                              ELSE {"function", "class", "variable"}
          IN  \A k \in 1..Len(analysis.source) :
                 LET node == analysis.source[k]
                 IN  node.kind \in declarations /\ node.name = <<>>
                        => /\ emitted(node)
                           /\ \A j \in 1..Len(node.children) :
                                 LET child == node.children[j]
                                 IN  (IF cpp THEN child.name # <<>>
                                      ELSE node.kind # "class" \/ child.kind # "class")
                                        => emitted(child)

\* C26: analyze yields exactly one export record, carrying the name of the
\* declaration's symbol, for each declaration that is the subject of an
\* export statement, and no other; and marks exactly the symbols of those
\* declarations as exported
C26_ExportsAreDirectSubjects ==
    analysis.op = "analyze"
       => LET exports == analysis.exports
              statements == {k \in 1..Len(analysis.source) :
                                analysis.source[k].kind = "export"}
              subject(k) == analysis.source[k].children[1]
          IN  /\ \A k \in statements :
                    /\ Cardinality({i \in 1..Len(exports) :
                                       exports[i].location
                                          \in {node_to_range(subject(k)),
                                               node_to_range(analysis.source[k])}}) = 1
                    /\ \E i \in 1..Len(exports) :
                          \E symbol \in ExtractedSymbols :
                             /\ symbol.range = node_to_range(subject(k))
                             /\ exports[i].name = symbol.name
                             /\ exports[i].location
                                   \in {node_to_range(subject(k)),
                                        node_to_range(analysis.source[k])}
              /\ Len(exports) = Cardinality(statements)
              /\ \A symbol \in ExtractedSymbols :
                    symbol.exported
                       <=> \E k \in statements :
                              symbol.range = node_to_range(subject(k))

===========================================================================
